---- MODULE Spec2Model ----
(***************************************************************************)
(* rich/markdown.py: the Markdown renderable.  Markdown.__console__ walks  *)
(* the parsed CommonMark tree as (node, entering) events and drives a      *)
(* MarkdownContext (style stack + element stack); elements are flushed to  *)
(* the segment stream when they close or collected by a parent element and *)
(* replayed when that parent is rendered.                                  *)
(*                                                                         *)
(* Literals are sequences of integers: a positive integer is a word (the   *)
(* number of the event that carried it, so every literal is distinct), 0   *)
(* is the newline character.  A style is the sequence of the style names   *)
(* composed, outermost first.                                              *)
(***************************************************************************)
EXTENDS Integers, Sequences, FiniteSets, TLC

\* ------------------------------------------------------------------ bounds
\* Longest traversal (number of walker events) of each class of document.
MaxEvents == 9
MaxProseEvents == 9
MaxNarrowEvents == 7
MaxListEvents == 14
MaxQuoteEvents == 13
\* Heading levels run from 1 to MaxLevel.
MaxLevel == 2
\* Events of a document rendered by two activations at once.
MaxTwoEvents == 7

\* ------------------------------------------------------- program constants
\* options.max_width - 3 in ListItem.render_bullet
GUTTER == 3

VARIABLES
    doc,          \* the class of document being walked: [kinds, max]
    max_width,    \* options.max_width
    theme,        \* the style names console.get_style resolves
    path,         \* the walker's open nodes, outermost first
    n,            \* number of events the walker has yielded
    ev,           \* the event being processed: current.t, entering, its node
    stack,        \* context.stack: ids of the open elements
    style_stack,  \* context.style_stack, the console's base style first
    heap,         \* the element objects created so far, by id
    new_line,     \* the local new_line of Markdown.__console__
    out,          \* the segments yielded so far
    status,       \* "running", "done", or the exception that ended the render
    parsed,       \* self.parsed, as far as a walker has read it
    other         \* a second activation of __console__, suspended

vars == <<doc, max_width, theme, path, n, ev, stack, style_stack, heap,
          new_line, out, status, parsed, other>>

\* ------------------------------------------------------------ the document
\* Node kinds of the CommonMark tree and what each may contain.
BlockKinds == {"paragraph", "heading", "code_block", "thematic_break",
               "block_quote", "list", "html_block"}

InlineKinds == {"text", "softbreak", "emph", "strong", "code", "link",
                "linebreak"}

\* node.is_container()
is_container(t) == t \in {"document", "block_quote", "list", "item",
                          "paragraph", "heading", "emph", "strong", "link"}

ChildKinds(t) ==
    CASE t \in {"document", "block_quote", "item"} -> BlockKinds
      [] t = "list" -> {"item"}
      [] t \in {"paragraph", "heading", "emph", "strong", "link"} -> InlineKinds
      [] OTHER -> {}

\* Line breaks stand between two other inline nodes.
BreakKinds == {"softbreak", "linebreak"}

\* Events a node needs between its enter and its leave event.
MinInside(t) ==
    CASE t = "list" -> 2
      [] t \in {"paragraph", "emph", "strong"} -> 1
      [] OTHER -> 0

\* current.literal of a leaf node whose event is number id
Literal(t, id) ==
    CASE t \in {"text", "code"} -> <<id>>
      [] t \in {"code_block", "html_block"} -> <<id, 0>>
      [] t = "softbreak" -> <<0>>
      [] OTHER -> <<>>

AllStyles == {"none", "markdown.paragraph", "markdown.h1", "markdown.h2",
              "markdown.h3", "markdown.h4", "markdown.h5", "markdown.h6",
              "markdown.h1.border", "markdown.code_block",
              "markdown.block_quote", "markdown.hr", "markdown.item",
              "markdown.emph", "markdown.strong", "markdown.code"}

AllKinds == {"document", "item"} \cup BlockKinds \cup InlineKinds

ProseKinds == {"document", "paragraph", "heading"} \cup InlineKinds

BlockOnlyKinds == {"document", "text"} \cup BlockKinds \cup {"item"}

ListKinds == {"document", "list", "item", "paragraph", "text"}

QuoteKinds == {"document", "block_quote", "paragraph", "text", "link"}

\* The inputs of a render: a class of documents, a width and a theme.
Inputs ==
    {[kinds |-> AllKinds, max |-> MaxEvents, width |-> 10,
      theme |-> AllStyles],
     [kinds |-> ProseKinds, max |-> MaxProseEvents, width |-> 20,
      theme |-> AllStyles \ {"markdown.emph", "markdown.code"}],
     [kinds |-> BlockOnlyKinds, max |-> MaxNarrowEvents, width |-> 2,
      theme |-> AllStyles],
     [kinds |-> BlockOnlyKinds, max |-> MaxNarrowEvents, width |-> 0,
      theme |-> AllStyles],
     [kinds |-> BlockOnlyKinds, max |-> MaxNarrowEvents, width |-> -1,
      theme |-> AllStyles],
     [kinds |-> ListKinds, max |-> MaxListEvents, width |-> 10,
      theme |-> AllStyles],
     [kinds |-> ListKinds, max |-> MaxListEvents, width |-> 2,
      theme |-> AllStyles],
     [kinds |-> QuoteKinds, max |-> MaxQuoteEvents, width |-> 10,
      theme |-> AllStyles]}

\* ------------------------------------------------------------ small helpers
Front(s) == SubSeq(s, 1, Len(s) - 1)

Last(s) == s[Len(s)]

RECURSIVE RStrip(_)
\* str.rstrip(): trailing whitespace removed
RStrip(s) == IF s # <<>> /\ Last(s) = 0 THEN RStrip(Front(s)) ELSE s

\* ------------------------------------------------------------- the elements
\* Markdown.elements.get(node_type) or UnknownElement
element_class(t) ==
    CASE t = "paragraph" -> "Paragraph"
      [] t = "heading" -> "Heading"
      [] t = "code_block" -> "CodeBlock"
      [] t = "block_quote" -> "BlockQuote"
      [] t = "thematic_break" -> "HorizontalRule"
      [] t = "list" -> "ListElement"
      [] t = "item" -> "ListItem"
      [] OTHER -> "UnknownElement"

\* Markdown.inlines
inlines == {"emph", "strong", "code"}

\* Classes deriving from TextElement
TextElementClasses == {"Paragraph", "Heading", "CodeBlock", "BlockQuote",
                       "ListItem"}

style_name(cls, level) ==
    CASE cls = "Paragraph" -> "markdown.paragraph"
      [] cls = "Heading" -> <<"markdown.h1", "markdown.h2", "markdown.h3",
                              "markdown.h4", "markdown.h5", "markdown.h6">>[level]
      [] cls = "CodeBlock" -> "markdown.code_block"
      [] cls = "BlockQuote" -> "markdown.block_quote"
      [] cls = "ListItem" -> "markdown.item"
      [] OTHER -> "none"

\* The class attribute new_line
new_line_of(cls) == cls # "HorizontalRule"

\* element_class.create(current): a fresh object.  BlockQuote.__init__ and
\* ListItem.__init__ set only self.elements, ListElement.__init__ only
\* self.items (kept in elements); self.text exists once on_enter has set it.
\* closed records the number of the event at which the element was popped.
create(t, level) ==
    [cls |-> element_class(t), level |-> level, has_text |-> FALSE,
     text |-> <<>>, base |-> <<>>, style |-> <<>>, elements |-> <<>>,
     closed |-> 0]

\* ------------------------------------------------------- MarkdownContext
\* A context value: the two stacks, the objects, the segments yielded so far,
\* the exception raised, if any, and the number of the event being handled.
Raise(c, e) == [c EXCEPT !.err = e]

\* Mutant: an unknown style name pushes nothing
enter_style_known_only(c, name) ==
    IF c.err # "none" \/ name \notin theme THEN c
    ELSE [c EXCEPT !.style_stack = Append(@, name)]

\* MarkdownContext.enter_style
enter_style(c, name) ==
    IF c.err # "none" THEN c
    ELSE LET style == IF name \in theme THEN name ELSE "none"
         IN  [c EXCEPT !.style_stack = Append(@, style)]

\* MarkdownContext.leave_style: StyleStack.pop never pops the base style
leave_style(c) ==
    IF c.err # "none" THEN c
    ELSE IF Len(c.style_stack) <= 1 THEN Raise(c, "IndexError")
    ELSE [c EXCEPT !.style_stack = Front(@)]

\* context.stack.push(element)
stack_push(c, id) ==
    IF c.err # "none" THEN c ELSE [c EXCEPT !.stack = Append(@, id)]

\* context.stack.pop()
stack_pop(c) ==
    IF c.err # "none" THEN c
    ELSE IF c.stack = <<>> THEN Raise(c, "IndexError")
    ELSE [c EXCEPT !.stack = Front(@), !.heap[Last(c.stack)].closed = c.now]

\* Mutant: BlockQuote.on_enter, which overrides TextElement.on_enter,
\* enters no style
on_enter_quote_plain(c, id) ==
    IF c.err # "none" THEN c
    ELSE LET e == c.heap[id]
             name == style_name(e.cls, e.level)
         IN  CASE e.cls \in {"Paragraph", "CodeBlock", "ListItem"} ->
                    LET c1 == enter_style(c, name)
                    IN  [c1 EXCEPT !.heap[id].style = c1.style_stack,
                                   !.heap[id].has_text = TRUE,
                                   !.heap[id].text = <<>>,
                                   !.heap[id].base = c1.style_stack]
               [] e.cls = "Heading" ->
                    enter_style([c EXCEPT !.heap[id].has_text = TRUE,
                                          !.heap[id].text = <<>>,
                                          !.heap[id].base = c.style_stack],
                                name)
               [] OTHER -> c

\* on_enter of the element id
on_enter(c, id) ==
    IF c.err # "none" THEN c
    ELSE LET e == c.heap[id]
             name == style_name(e.cls, e.level)
         IN  CASE e.cls \in {"Paragraph", "CodeBlock", "ListItem"} ->
                    LET c1 == enter_style(c, name)
                    IN  [c1 EXCEPT !.heap[id].style = c1.style_stack,
                                   !.heap[id].has_text = TRUE,
                                   !.heap[id].text = <<>>,
                                   !.heap[id].base = c1.style_stack]
               [] e.cls = "Heading" ->
                    enter_style([c EXCEPT !.heap[id].has_text = TRUE,
                                          !.heap[id].text = <<>>,
                                          !.heap[id].base = c.style_stack],
                                name)
               [] e.cls = "BlockQuote" -> enter_style(c, name)
               [] OTHER -> c

\* Mutant: the text is tagged with the style the element was opened with
on_text_base_style(c, id, text) ==
    IF c.err # "none" THEN c
    ELSE LET e == c.heap[id]
         IN  IF e.cls \in TextElementClasses
             THEN IF e.has_text
                  THEN [c EXCEPT !.heap[id].text =
                           Append(@, [lit |-> text, style |-> e.base])]
                  ELSE Raise(c, "AttributeError")
             ELSE c

\* on_text of the element id
on_text(c, id, text) ==
    IF c.err # "none" THEN c
    ELSE LET e == c.heap[id]
         IN  IF e.cls \in TextElementClasses
             THEN IF e.has_text
                  THEN [c EXCEPT !.heap[id].text =
                           Append(@, [lit |-> text, style |-> c.style_stack])]
                  ELSE Raise(c, "AttributeError")
             ELSE c

\* Mutant: BlockQuote overrides on_leave as it does on_enter, and pops nothing
on_leave_quote_plain(c, id) ==
    IF c.err # "none" THEN c
    ELSE IF c.heap[id].cls \in TextElementClasses \ {"BlockQuote"}
    THEN leave_style(c)
    ELSE c

\* on_leave of the element id
on_leave(c, id) ==
    IF c.err # "none" THEN c
    ELSE IF c.heap[id].cls \in TextElementClasses THEN leave_style(c)
    ELSE c

\* Mutant: the child is collected and the caller is still told to flush it
on_child_close_flushes(c, id, child) ==
    IF c.heap[id].cls \in {"BlockQuote", "ListElement", "ListItem"}
    THEN [c |-> [c EXCEPT !.heap[id].elements = Append(@, child)],
          ret |-> TRUE]
    ELSE [c |-> c, ret |-> TRUE]

\* Mutant: the child is put in front of the children collected before it
on_child_close_prepends(c, id, child) ==
    IF c.heap[id].cls \in {"BlockQuote", "ListElement", "ListItem"}
    THEN [c |-> [c EXCEPT !.heap[id].elements = <<child>> \o @],
          ret |-> FALSE]
    ELSE [c |-> c, ret |-> TRUE]

\* on_child_close of the element id, offered the closed child: the context
\* after the call and the value returned
on_child_close(c, id, child) ==
    IF c.heap[id].cls \in {"BlockQuote", "ListElement", "ListItem"}
    THEN [c |-> [c EXCEPT !.heap[id].elements = Append(@, child)],
          ret |-> FALSE]
    ELSE [c |-> c, ret |-> TRUE]

context_on_text_forwarding(c, text) ==
    IF c.err # "none" THEN c
    ELSE IF c.stack = <<>> THEN Raise(c, "IndexError")
    ELSE IF c.heap[Last(c.stack)].cls = "UnknownElement"
              /\ Len(c.stack) > 1
    THEN on_text(c, c.stack[Len(c.stack) - 1], text)
    ELSE on_text(c, Last(c.stack), text)

\* MarkdownContext.on_text
context_on_text(c, text) ==
    IF c.err # "none" THEN c
    ELSE IF c.stack = <<>> THEN Raise(c, "IndexError")
    ELSE on_text(c, Last(c.stack), text)

\* ---------------------------------------------------------------- rendering
\* What reaches the segment stream.  t is "sep" (the walker's Segment("\n")),
\* "text" (a Text: its runs, base style and justify), "panel" (a Panel
\* around a Text), "border" (a border line of a Panel laid out in lines),
\* "rule" (w rule characters and a newline), "bullet", "indent" or "eol"
\* (the Segments of ListItem.render_bullet, w the width the item's children
\* were laid out at); src is the element it is the output of, at the number
\* of the event that yielded it, depth the number of styles the Style
\* Context held when it was yielded.
Seg(t, src, runs, base, justify, w) ==
    [t |-> t, src |-> src, runs |-> runs, base |-> base, justify |-> justify,
     w |-> w, at |-> 0, depth |-> 0]

Mark(t, src) == Seg(t, src, <<>>, <<>>, "", 0)

\* Segment("\n") of lines 265 and 283
Sep == Mark("sep", 0)

\* TextElement.__console__ / Paragraph.__console__: yield self.text
text_console(h, id) ==
    <<Seg("text", id, h[id].text, h[id].base, "default", 0)>>

heading_console_plain(h, id) ==
    <<Seg("text", id, h[id].text, h[id].base, "center", 0)>>

\* Heading.__console__
heading_console(h, id) ==
    IF h[id].level = 1
    THEN <<Seg("panel", id, h[id].text, h[id].base, "center", 0)>>
    ELSE <<Seg("text", id, h[id].text, h[id].base, "center", 0)>>

rule_console_signed(id, w) ==
    <<Seg("rule", id, <<>>, <<"markdown.hr">>, "", w)>>

\* HorizontalRule.__console__: "-" * options.max_width is empty for a
\* width below 1
rule_console(id, w) ==
    <<Seg("rule", id, <<>>, <<"markdown.hr">>, "", IF w > 0 THEN w ELSE 0)>>

RECURSIVE SplitRuns(_)
\* The runs of a Text cut into lines at its newlines
SplitRuns(rs) ==
    IF rs = <<>> THEN << <<>> >>
    ELSE LET rest == SplitRuns(Tail(rs))
         IN  IF Head(rs).lit = <<0>>
             THEN << <<>> >> \o rest
             ELSE << <<Head(rs)>> \o Head(rest) >> \o Tail(rest)

\* The lines a Text lays out to: one segment per line
text_lines(s) ==
    [i \in 1..Len(SplitRuns(s.runs)) |->
        <<Seg("text", s.src, SplitRuns(s.runs)[i], s.base, s.justify, 0)>>]

RECURSIVE SplitAtEol(_)
\* Segments cut into lines at each Segment("\n")
SplitAtEol(segs) ==
    IF segs = <<>> THEN <<>>
    ELSE LET k == CHOOSE i \in 1..Len(segs) :
                     /\ segs[i].t = "eol"
                     /\ \A j \in 1..(i - 1) : segs[j].t # "eol"
         IN  <<SubSeq(segs, 1, k - 1)>> \o
             SplitAtEol(SubSeq(segs, k + 1, Len(segs)))

RECURSIVE console(_, _, _)
RECURSIVE console_all(_, _, _)
RECURSIVE render_bullet(_, _, _)
RECURSIVE render_bullets(_, _, _)
RECURSIVE render_lines(_, _, _)
RECURSIVE element_lines(_, _, _)

\* BlockQuote.__console__: yield from element.__console__ for each child
console_all(h, ids, w) ==
    IF ids = <<>> THEN <<>>
    ELSE console(h, Head(ids), w) \o console_all(h, Tail(ids), w)

\* ListElement.__console__: yield from item.render_bullet for each item
render_bullets(h, ids, w) ==
    IF ids = <<>> THEN <<>>
    ELSE render_bullet(h, Head(ids), w) \o render_bullets(h, Tail(ids), w)

\* element.__console__(console, options) with options.max_width = w
console(h, id, w) ==
    CASE h[id].cls \in {"Paragraph", "CodeBlock", "ListItem"} ->
            text_console(h, id)
      [] h[id].cls = "Heading" -> heading_console(h, id)
      [] h[id].cls = "BlockQuote" -> console_all(h, h[id].elements, w)
      [] h[id].cls = "HorizontalRule" -> rule_console(id, w)
      [] h[id].cls = "ListElement" -> render_bullets(h, h[id].elements, w)
      [] OTHER -> <<>>

\* The lines one element lays out to at width w
element_lines(h, id, w) ==
    CASE h[id].cls \in {"Paragraph", "CodeBlock", "ListItem"} ->
            text_lines(text_console(h, id)[1])
      [] h[id].cls = "Heading" ->
            IF h[id].level = 1
            THEN << <<Mark("border", id)>> >> \o
                 text_lines(heading_console(h, id)[1]) \o
                 << <<Mark("border", id)>> >>
            ELSE text_lines(heading_console(h, id)[1])
      [] h[id].cls = "BlockQuote" -> render_lines(h, h[id].elements, w)
      [] h[id].cls = "HorizontalRule" -> <<rule_console(id, w)>>
      [] h[id].cls = "ListElement" -> SplitAtEol(console(h, id, w))
      [] OTHER -> <<>>

\* console.render_lines(renderables, options): the lines of each, in order
render_lines(h, ids, w) ==
    IF ids = <<>> THEN <<>>
    ELSE element_lines(h, Head(ids), w) \o render_lines(h, Tail(ids), w)

RECURSIVE bullet_lines_all_bullets(_, _, _)
bullet_lines_all_bullets(id, lines, index) ==
    IF lines = <<>> THEN <<>>
    ELSE <<Mark("bullet", id)>> \o
         Head(lines) \o <<Mark("eol", id)>> \o
         bullet_lines_all_bullets(id, Tail(lines), index + 1)

RECURSIVE bullet_lines(_, _, _)
\* The loop of ListItem.render_bullet over enumerate(lines)
bullet_lines(id, lines, index) ==
    IF lines = <<>> THEN <<>>
    ELSE <<Mark(IF index # 0 THEN "indent" ELSE "bullet", id)>> \o
         Head(lines) \o <<Mark("eol", id)>> \o
         bullet_lines(id, Tail(lines), index + 1)

\* options.max_width - 3 of options.with_width(...)
render_width(w) == w - GUTTER

\* The Segments render_bullet makes itself, marked with the width its
\* render_options carry (the width the item's children are laid out at)
laid_out_at(segs, id, rw) ==
    [i \in 1..Len(segs) |->
        IF segs[i].src = id /\ segs[i].t \in {"bullet", "indent", "eol"}
        THEN [segs[i] EXCEPT !.w = rw]
        ELSE segs[i]]

\* ListItem.render_bullet
render_bullet(h, id, w) ==
    LET render_options == render_width(w)
        lines == render_lines(h, h[id].elements, render_options)
    IN  laid_out_at(bullet_lines(id, lines, 0), id, render_options)

\* yield from ...: the segments reach the stream unless the render has failed
yield(c, segs) ==
    IF c.err # "none" THEN c
    ELSE [c EXCEPT !.out = @ \o [i \in 1..Len(segs) |->
                                    [segs[i] EXCEPT
                                        !.at = c.now,
                                        !.depth = Len(c.style_stack)]]]

\* --------------------------------------------------- Markdown.__console__
\* The context as the handler of one event finds it
Ctx ==
    [stack |-> stack, style_stack |-> style_stack, heap |-> heap, out |-> out,
     err |-> "none", now |-> n + 1]

\* f"markdown.{node_type}"
inline_style(t) ==
    CASE t = "emph" -> "markdown.emph"
      [] t = "strong" -> "markdown.strong"
      [] OTHER -> "markdown.code"

\* lines 237-241: a text node, and a softbreak node
visit_text(c, literal) == context_on_text(c, literal)

\* lines 244-247: an inline span that is a container
span_enter(c, t) == enter_style(c, inline_style(t))

span_leave(c) == leave_style(c)

\* lines 249-252: an inline span that is a leaf
span_leaf(c, t, literal) ==
    LET c1 == enter_style(c, inline_style(t))
        c2 == IF literal # <<>> THEN context_on_text(c1, literal) ELSE c1
    IN  leave_style(c2)

\* lines 257-259: entering a container node whose element gets the id given
container_enter(c, t, level, id) ==
    on_enter(stack_push([c EXCEPT !.heap = (id :> create(t, level)) @@ @], id),
             id)

\* lines 261-272: leaving a container node
container_leave(c, nl, w) ==
    LET c1 == stack_pop(c)
    IN  IF c1.err # "none" THEN c1
        ELSE LET element == Last(c.stack)
             IN  IF c1.stack # <<>>
                 THEN LET r == on_child_close(c1, Last(c1.stack), element)
                      IN  IF r.ret
                          THEN on_leave(
                                 yield(yield(r.c, IF nl THEN <<Sep>> ELSE <<>>),
                                       console(r.c.heap, element, w)),
                                 element)
                          ELSE on_leave(r.c, element)
                 ELSE yield(on_leave(c1, element),
                            console(c1.heap, element, w))

\* Mutant: the leaf's element is left on the element stack
leaf_element_no_pop(c, t, literal, id, nl, w) ==
    LET c1 == on_enter(stack_push(
                  [c EXCEPT !.heap = (id :> create(t, 0)) @@ @], id), id)
        c2 == IF literal # <<>> THEN on_text(c1, id, RStrip(literal)) ELSE c1
        c4 == yield(c2, IF nl THEN <<Sep>> ELSE <<>>)
        c5 == yield(c4, console(c4.heap, id, w))
    IN  on_leave(c5, id)

\* lines 275-285: a leaf node whose element gets the id given
leaf_element(c, t, literal, id, nl, w) ==
    LET c1 == on_enter(stack_push(
                  [c EXCEPT !.heap = (id :> create(t, 0)) @@ @], id), id)
        c2 == IF literal # <<>> THEN on_text(c1, id, RStrip(literal)) ELSE c1
        c3 == stack_pop(c2)
        c4 == yield(c3, IF nl THEN <<Sep>> ELSE <<>>)
        c5 == IF c4.err # "none" THEN c4
              ELSE yield(c4, console(c4.heap, id, w))
    IN  on_leave(c5, id)

\* lines 273 and 286: new_line = element.new_line
next_new_line(c, nl, id) == new_line_of(c.heap[id].cls)

\* -------------------------------------------------------------- the walker
Node(t, id, level) ==
    [t |-> t, id |-> id, level |-> level, kids |-> 0, brk |-> FALSE]

NoEvent == [t |-> "", entering |-> FALSE, id |-> 0]

Event(t, entering, id) == [t |-> t, entering |-> entering, id |-> id]

\* Events the open nodes still need: each its leave event, and the
\* innermost its contents if it has none yet
Owed(p) ==
    IF p = <<>> THEN 0
    ELSE Len(p) + (IF Last(p).kids = 0 THEN MinInside(Last(p).t)
                   ELSE IF Last(p).brk THEN 1 ELSE 0)

\* The open nodes once the innermost has a child of kind t
Visited(t) ==
    IF path = <<>> THEN path
    ELSE [path EXCEPT ![Len(path)].kids = 1,
                      ![Len(path)].brk = (t \in BreakKinds)]

\* The walker may visit a node of kind t next
CanVisit(t) ==
    /\ status = "running"
    /\ t \in doc.kinds
    /\ IF path = <<>> THEN n = 0 /\ t = "document"
       ELSE /\ t \in ChildKinds(Last(path).t)
            /\ t \in BreakKinds => Last(path).kids > 0 /\ ~Last(path).brk
    /\ n + 1 + (IF is_container(t) THEN Owed(Append(Visited(t), Node(t, 0, 0)))
                ELSE Owed(Visited(t))) <= doc.max

\* The walker may leave the innermost open node
CanLeave ==
    /\ status = "running"
    /\ path # <<>>
    /\ IF Last(path).kids > 0 THEN ~Last(path).brk
       ELSE MinInside(Last(path).t) = 0

\* The node an event is of, as self.parsed holds it
Parsed(e, p) ==
    [t |-> e.t, entering |-> e.entering,
     level |-> IF e.entering /\ p # <<>> /\ Last(p).id = e.id
               THEN Last(p).level ELSE 0]

\* The state after the handler of event e has run to its end or raised
Step(c, nl, e, p) ==
    /\ IF n < Len(parsed)
       THEN parsed[n + 1] = Parsed(e, p) /\ parsed' = parsed
       ELSE parsed' = Append(parsed, Parsed(e, p))
    /\ other' = other
    /\ stack' = c.stack
    /\ style_stack' = c.style_stack
    /\ heap' = c.heap
    /\ out' = c.out
    /\ new_line' = nl
    /\ ev' = e
    /\ n' = n + 1
    /\ path' = p
    /\ status' = IF c.err # "none" THEN c.err
                 ELSE IF p = <<>> THEN "done" ELSE "running"
    /\ UNCHANGED <<doc, max_width, theme>>

\* No second activation of __console__ has been made
NotStarted == [status |-> "none"]

Init ==
    /\ \E i \in Inputs :
          /\ doc = [kinds |-> i.kinds, max |-> i.max]
          /\ max_width = i.width
          /\ theme = i.theme
    /\ path = <<>>
    /\ n = 0
    /\ ev = NoEvent
    /\ stack = <<>>
    /\ style_stack = <<"base">>
    /\ heap = <<>>
    /\ new_line = FALSE
    /\ out = <<>>
    /\ status = "running"
    /\ parsed = <<>>
    /\ other = NotStarted

VisitText ==
    /\ CanVisit("text")
    /\ Step(visit_text(Ctx, Literal("text", n + 1)), new_line,
            Event("text", TRUE, n + 1), Visited("text"))

VisitSoftbreak ==
    /\ CanVisit("softbreak")
    /\ Step(visit_text(Ctx, Literal("softbreak", n + 1)), new_line,
            Event("softbreak", TRUE, n + 1), Visited("softbreak"))

SpanEnter ==
    \E t \in {"emph", "strong"} :
        /\ CanVisit(t)
        /\ Step(span_enter(Ctx, t), new_line, Event(t, TRUE, n + 1),
                Append(Visited(t), Node(t, n + 1, 0)))

SpanLeave ==
    /\ CanLeave
    /\ Last(path).t \in inlines
    /\ Step(span_leave(Ctx), new_line,
            Event(Last(path).t, FALSE, Last(path).id), Front(path))

SpanLeaf ==
    /\ CanVisit("code")
    /\ Step(span_leaf(Ctx, "code", Literal("code", n + 1)), new_line,
            Event("code", TRUE, n + 1), Visited("code"))

ContainerEnter ==
    \E t \in {"document", "paragraph", "heading", "block_quote", "list",
              "item", "link"} :
      \E level \in IF t = "heading" THEN 1..MaxLevel ELSE {0} :
        /\ CanVisit(t)
        /\ Step(container_enter(Ctx, t, level, n + 1), new_line,
                Event(t, TRUE, n + 1),
                Append(Visited(t), Node(t, n + 1, level)))

ContainerLeave ==
    /\ CanLeave
    /\ Last(path).t \notin inlines
    /\ LET c == container_leave(Ctx, new_line, max_width)
       IN  Step(c,
                IF stack = <<>> THEN new_line
                ELSE next_new_line(Ctx, new_line, Last(stack)),
                Event(Last(path).t, FALSE, Last(path).id), Front(path))

LeafElement ==
    \E t \in {"code_block", "thematic_break", "html_block", "linebreak"} :
        /\ CanVisit(t)
        /\ LET c == leaf_element(Ctx, t, Literal(t, n + 1), n + 1, new_line,
                                 max_width)
           IN  Step(c, next_new_line(c, new_line, n + 1),
                    Event(t, TRUE, n + 1), Visited(t))

Next ==
    \/ VisitText
    \/ VisitSoftbreak
    \/ SpanEnter
    \/ SpanLeave
    \/ SpanLeaf
    \/ ContainerEnter
    \/ ContainerLeave
    \/ LeafElement

Spec == Init /\ [][Next]_vars

\* -------------------------------------------- two renders of one Markdown
\* Documents whose render is shared by two activations
TwoKinds == {"document", "paragraph", "text", "softbreak", "emph", "code",
             "block_quote", "code_block", "thematic_break"}

context_of_live_render(live) == live

\* line 228: context = MarkdownContext(console, options), a new object with
\* stacks of its own (lines 178-180) whatever context another activation of
\* __console__ on this Markdown works on
MarkdownContext_init(live) == [stack |-> <<>>, style_stack |-> <<"base">>]

\* The locals of the running activation, as a generator keeps them while it
\* is suspended
Locals ==
    [path |-> path, n |-> n, ev |-> ev, stack |-> stack,
     style_stack |-> style_stack, heap |-> heap, new_line |-> new_line,
     out |-> out, status |-> status]

\* lines 226-231: the locals of a new activation of __console__
Activation ==
    LET context == MarkdownContext_init([stack |-> stack,
                                         style_stack |-> style_stack])
    IN  [path |-> <<>>, n |-> 0, ev |-> NoEvent, stack |-> context.stack,
         style_stack |-> context.style_stack, heap |-> <<>>,
         new_line |-> FALSE, out |-> <<>>, status |-> "running"]

InitTwo ==
    /\ doc = [kinds |-> TwoKinds, max |-> MaxTwoEvents]
    /\ max_width = 10
    /\ theme = AllStyles
    /\ path = <<>>
    /\ n = 0
    /\ ev = NoEvent
    /\ stack = <<>>
    /\ style_stack = <<"base">>
    /\ heap = <<>>
    /\ new_line = FALSE
    /\ out = <<>>
    /\ status = "running"
    /\ parsed = <<>>
    /\ other = NotStarted

\* The consumer turns to the other render of the same Markdown: the running
\* generator stays suspended where it is, the other one (made by a second
\* call of __console__ if there is none yet) goes on from where it was.  A
\* render the consumer never turns back to is abandoned.
Resume ==
    LET r == IF other = NotStarted THEN Activation ELSE other
    IN  /\ n > 0
        /\ other' = Locals
        /\ path' = r.path
        /\ n' = r.n
        /\ ev' = r.ev
        /\ stack' = r.stack
        /\ style_stack' = r.style_stack
        /\ heap' = r.heap
        /\ new_line' = r.new_line
        /\ out' = r.out
        /\ status' = r.status
        /\ UNCHANGED <<doc, max_width, theme, parsed>>

NextTwo ==
    \/ Next
    \/ Resume

SpecTwo == InitTwo /\ [][NextTwo]_vars

\* ------------------------------------------------------------------ claims
Range(s) == {s[i] : i \in DOMAIN s}

Healthy == status \in {"running", "done"}

IsElementNode(x) == x.t \notin inlines

\* The open nodes that have an element: every container but the spans
ElementNodes == SelectSeq(path, IsElementNode)

PushesStyle(x) == x.t \in {"block_quote", "item", "paragraph", "heading",
                            "emph", "strong"}

\* The style an open node contributes, as the theme resolves its name
NodeStyle(x) ==
    LET name == CASE x.t = "block_quote" -> "markdown.block_quote"
                  [] x.t = "item" -> "markdown.item"
                  [] x.t = "paragraph" -> "markdown.paragraph"
                  [] x.t = "heading" -> IF x.level = 1 THEN "markdown.h1"
                                        ELSE IF x.level = 2 THEN "markdown.h2"
                                        ELSE IF x.level = 3 THEN "markdown.h3"
                                        ELSE "markdown.h4"
                  [] x.t = "emph" -> "markdown.emph"
                  [] OTHER -> "markdown.strong"
    IN  IF name \in theme THEN name ELSE "none"

\* Base style, then the style of every open node that has one, outermost first
OpenStyles ==
    LET open == SelectSeq(path, PushesStyle)
    IN  <<"base">> \o [i \in 1..Len(open) |-> NodeStyle(open[i])]

RECURSIVE Absorbers(_)
\* The elements that hold element a, directly or through a child, in their
\* child sequence
Absorbers(a) ==
    LET ps == {p \in DOMAIN heap :
                  \E k \in DOMAIN heap[p].elements : heap[p].elements[k] = a}
    IN  ps \cup UNION {Absorbers(p) : p \in ps}

\* Where the output of element a lies in the segment stream
Positions(a) == {i \in DOMAIN out : out[i].src = a}

\* C1: the Element Stack is empty and the Style Context holds the base style
\* alone, both before the first event and once the last event (the leave
\* event of the root) has been processed, and that last event raises nothing.
C1_Balance ==
    path = <<>> =>
        /\ Healthy
        /\ stack = <<>>
        /\ style_stack = <<"base">>

\* A traversal is over in which a block quote and an emphasis span were open.
C1_Witness ==
    /\ status = "done"
    /\ \E q \in DOMAIN heap : heap[q].cls = "BlockQuote"
    /\ \E a \in DOMAIN heap : \E k \in DOMAIN heap[a].text :
          "markdown.emph" \in Range(heap[a].text[k].style)

\* C2: the Element Stack holds exactly the elements of the open container
\* nodes, outermost first, each the object created at its node's enter
\* event; an element is popped once, at its own node's leave event (a leaf's
\* within its visit); and of two elements the later pushed is popped first
\* unless the earlier was popped before the later was pushed.
C2_StackMirrorsOpenNodes ==
    Healthy =>
        /\ Len(stack) = Len(ElementNodes)
        /\ \A i \in DOMAIN stack :
              /\ stack[i] = ElementNodes[i].id
              /\ heap[stack[i]].cls = element_class(ElementNodes[i].t)
        /\ \A a \in DOMAIN heap : heap[a].closed = 0 <=> a \in Range(stack)
        /\ (n > 0 /\ ~ev.entering /\ ev.t \notin inlines) =>
              /\ ev.id \in DOMAIN heap
              /\ heap[ev.id].closed = n
        /\ \A a, b \in DOMAIN heap :
              (a < b /\ heap[a].closed # 0) =>
                 \/ heap[a].closed < b
                 \/ heap[b].closed # 0 /\ heap[b].closed < heap[a].closed

\* A paragraph has just been popped from under two open elements, after a
\* leaf element was pushed and popped.
C2_Witness ==
    /\ Healthy
    /\ ~ev.entering
    /\ ev.t = "paragraph"
    /\ Len(stack) >= 2
    /\ \E a \in DOMAIN heap : heap[a].cls = "HorizontalRule"

\* C3: no step pops the Style Context down to nothing pushed by this render,
\* pops the empty Element Stack or takes the top of the empty Element Stack.
C3_NoUnderflow == status # "IndexError"

\* A traversal is over in which a leaf code span wrote its literal.
C3_Witness ==
    /\ status = "done"
    /\ \E a \in DOMAIN heap : \E k \in DOMAIN heap[a].text :
          Last(heap[a].text[k].style) \in {"markdown.code", "none"}

\* C4 as stated: after every text event the innermost open element's text
\* ends with the literal, tagged with the base style composed with the style
\* of every open node that has one.
C4_EveryTextAppended ==
    (Healthy /\ ev.t = "text") =>
        /\ heap[Last(stack)].text # <<>>
        /\ Last(heap[Last(stack)].text) =
              [lit |-> <<ev.id>>, style |-> OpenStyles]

\* C4 amended: the same of every text event whose innermost open element is
\* a text element.
C4_TextAppendedToTextElement ==
    (Healthy /\ ev.t = "text"
       /\ heap[Last(stack)].cls \in TextElementClasses) =>
        /\ heap[Last(stack)].text # <<>>
        /\ Last(heap[Last(stack)].text) =
              [lit |-> <<ev.id>>, style |-> OpenStyles]

\* 'hello *world*': the second text lands in the paragraph under
\* base+paragraph+emphasis, after the first under base+paragraph.
C4_Witness ==
    /\ Healthy
    /\ ev.t = "text"
    /\ heap[Last(stack)].cls = "Paragraph"
    /\ Len(heap[Last(stack)].text) = 2
    /\ heap[Last(stack)].text[1].style = <<"base", "markdown.paragraph">>
    /\ heap[Last(stack)].text[2].style =
          <<"base", "markdown.paragraph", "markdown.emph">>

\* C5: an event of an inline span leaves the Element Stack and the set of
\* element objects as they were; a container span pushes one style entering
\* and pops one leaving, a leaf span leaves the Style Context as it found it;
\* and afterwards the Style Context holds exactly the styles of the nodes
\* still open.
C5_SpansStyleNeutral ==
    [][(n' = n + 1 /\ ev'.t \in inlines /\ status' \in {"running", "done"}) =>
          /\ stack' = stack
          /\ DOMAIN heap' = DOMAIN heap
          /\ Len(style_stack') =
                Len(style_stack) + (IF ev'.t = "code" THEN 0
                                    ELSE IF ev'.entering THEN 1 ELSE -1)
          /\ SubSeq(style_stack', 1, Len(style_stack) - 1) =
                SubSeq(style_stack, 1, Len(style_stack) - 1)
          /\ style_stack' = OpenStyles']_vars

\* An emphasis span whose style name the theme does not know has closed
\* around a strong span.
C5_Witness ==
    /\ Healthy
    /\ ev.t = "emph"
    /\ ~ev.entering
    /\ "markdown.emph" \notin theme
    /\ \E a \in DOMAIN heap : \E k \in DOMAIN heap[a].text :
          heap[a].text[k].style =
             <<"base", "markdown.paragraph", "none", "markdown.strong">>

\* The event just handled closed an element: the leave event of a
\* container node other than a span, or the visit of a leaf node that has
\* an element
ClosedElement ==
    /\ n > 0
    /\ \/ ~ev.entering /\ ev.t \notin inlines
       \/ ev.t \in {"code_block", "thematic_break", "html_block", "linebreak"}

\* C6 as stated: an element closed while a block quote, list or list item is
\* the innermost open element is the last of that parent's child sequence,
\* and none of its output is in the segment stream while the parent is open.
C6_ClosedChildCollected ==
    (Healthy /\ ClosedElement /\ stack # <<>>
       /\ heap[Last(stack)].cls \in {"BlockQuote", "ListElement", "ListItem"})
    => /\ heap[Last(stack)].elements # <<>>
       /\ Last(heap[Last(stack)].elements) = ev.id
       /\ Positions(ev.id) = {}

\* Classes whose render always yields something
Produces(a) ==
    heap[a].cls \in {"Paragraph", "Heading", "CodeBlock", "HorizontalRule"}

RECURSIVE Lits(_)
\* The characters of a sequence of runs
Lits(rs) == IF rs = <<>> THEN <<>> ELSE Head(rs).lit \o Lits(Tail(rs))

RECURSIVE JoinLines(_)
\* The characters of a sequence of Text segments, one line each
JoinLines(segs) ==
    IF segs = <<>> THEN <<>>
    ELSE IF Len(segs) = 1 THEN Lits(segs[1].runs)
    ELSE Lits(segs[1].runs) \o <<0>> \o JoinLines(Tail(segs))

\* The Text segments of element a in the stream
OwnText(a) ==
    LET IsOwn(x) == x.src = a /\ x.t \in {"text", "panel"}
    IN  SelectSeq(out, IsOwn)

\* C8: when the traversal is over the stream holds the text of every
\* paragraph, heading and code block once, one rule for every horizontal
\* rule, and one bullet for every list item that collected such an element
\* (at most one for any list item).
C8_RenderedExactlyOnce ==
    status = "done" =>
        \A a \in DOMAIN heap :
            /\ heap[a].cls \in {"Paragraph", "Heading", "CodeBlock"} =>
                  /\ OwnText(a) # <<>>
                  /\ JoinLines(OwnText(a)) = Lits(heap[a].text)
            /\ heap[a].cls = "HorizontalRule" =>
                  Cardinality({i \in Positions(a) : out[i].t = "rule"}) = 1
            /\ heap[a].cls = "ListItem" =>
                  LET bullets ==
                        Cardinality({i \in Positions(a) : out[i].t = "bullet"})
                  IN  /\ bullets <= 1
                      /\ (\E k \in DOMAIN heap[a].elements :
                             Produces(heap[a].elements[k])) => bullets = 1

\* A traversal is over in which a block quote absorbed a paragraph and
\* another paragraph was flushed when it closed.
C8_Witness ==
    /\ status = "done"
    /\ \E q, b \in DOMAIN heap :
          /\ heap[q].cls = "BlockQuote"
          /\ heap[q].elements # <<>>
          /\ heap[Last(heap[q].elements)].cls = "Paragraph"
          /\ heap[b].cls = "Paragraph"
          /\ Absorbers(b) = {}

\* The document is a list of items that each hold one paragraph of one text
BulletList(l) ==
    /\ heap[l].cls = "ListElement"
    /\ heap[l].elements # <<>>
    /\ \A k \in DOMAIN heap[l].elements :
          LET item == heap[heap[l].elements[k]]
          IN  /\ item.cls = "ListItem"
              /\ Len(item.elements) = 1
              /\ heap[item.elements[1]].cls = "Paragraph"
              /\ Len(heap[item.elements[1]].text) = 1
              /\ heap[item.elements[1]].text[1].lit # <<0>>
    /\ DOMAIN heap =
          {1, l} \cup Range(heap[l].elements)
                 \cup {heap[heap[l].elements[k]].elements[1] :
                          k \in DOMAIN heap[l].elements}

\* C9 as stated: the stream of such a document is, for each item in order,
\* the bullet, the item's text and a newline, and nothing else.
C9_BulletListExact ==
    status = "done" =>
        \A l \in DOMAIN heap :
            BulletList(l) =>
                /\ Len(out) = 3 * Len(heap[l].elements)
                /\ \A k \in DOMAIN heap[l].elements :
                      LET item == heap[l].elements[k]
                          par == heap[item].elements[1]
                      IN  /\ out[3 * k - 2].t = "bullet"
                          /\ out[3 * k - 2].src = item
                          /\ out[3 * k - 1].t = "text"
                          /\ out[3 * k - 1].src = par
                          /\ out[3 * k - 1].runs = heap[par].text
                          /\ out[3 * k].t = "eol"

\* C10 as stated: a flushed top-level block quote whose children are
\* paragraphs puts their Texts in the stream one right after the other, and
\* when a top-level paragraph follows the quote exactly one separator lies
\* between the last of them and that paragraph's Text.
C10_QuoteSpacing ==
    Healthy =>
        \A q \in DOMAIN heap :
            LET e == heap[q]
                p == e.closed + 1
                K == Len(e.elements)
            IN  (/\ e.cls = "BlockQuote"
                 /\ e.closed # 0
                 /\ Absorbers(q) = {}
                 /\ K > 0
                 /\ \A k \in 1..K : heap[e.elements[k]].cls = "Paragraph"
                 /\ p \in DOMAIN heap
                 /\ heap[p].cls = "Paragraph"
                 /\ heap[p].closed # 0)
                => \E f \in DOMAIN out :
                      /\ f + K + 1 <= Len(out)
                      /\ \A k \in 1..K :
                            /\ out[f + k - 1].t = "text"
                            /\ out[f + k - 1].src = e.elements[k]
                      /\ out[f + K].t = "sep"
                      /\ out[f + K + 1].t = "text"
                      /\ out[f + K + 1].src = p
                      /\ Cardinality(Positions(p)) = 1

\* Node kinds the element table does not know
UnknownKinds == {"document", "link", "html_block", "linebreak"}

\* C11 as stated: an event of a node of an unrecognized kind (the visit of
\* an unrecognized leaf, the enter or the leave event of an unrecognized
\* container) raises nothing and adds no segment to the stream.
C11_UnknownAddsNoSegment ==
    (n > 0 /\ ev.t \in UnknownKinds) =>
        /\ Healthy
        /\ \A i \in DOMAIN out : out[i].at # n

\* C12 as stated: the segment right after a horizontal rule's segment in
\* the stream is never a newline separator.
C12_NoSeparatorAfterRule ==
    \A i \in DOMAIN out :
        (out[i].t = "rule" /\ i < Len(out)) => out[i + 1].t # "sep"

RECURSIVE Flatten(_)
\* The segments of a sequence of lines, one line after the other
Flatten(lines) ==
    IF lines = <<>> THEN <<>> ELSE Head(lines) \o Flatten(Tail(lines))

\* A Segment ListItem.render_bullet makes itself for item a
OwnMark(a, x) == x.src = a /\ x.t \in {"bullet", "indent", "eol"}

\* C14: for a list item whose children lay out to k >= 1 lines, render_bullet
\* yields those k lines in order, the first after the bullet, each later one
\* after the 3-space indent, and each followed by one newline Segment: k
\* newline Segments in all, one bullet, and an indent right after every
\* newline but the last.  A list that is not nested puts them in the stream.
C14_BulletLines ==
    \A a \in DOMAIN heap :
        (heap[a].cls = "ListItem" /\ heap[a].closed # 0) =>
            LET lines == render_lines(heap, heap[a].elements,
                                      render_width(max_width))
                segs == render_bullet(heap, a, max_width)
                k == Len(lines)
                Inner(x) == ~OwnMark(a, x)
            IN  k >= 1 =>
                  /\ Cardinality({i \in DOMAIN segs : segs[i].t = "eol"}) = k
                  /\ segs[1].t = "bullet" /\ segs[1].src = a
                  /\ Last(segs).t = "eol" /\ Last(segs).src = a
                  /\ \A i \in DOMAIN segs :
                        /\ (segs[i].t = "eol" /\ i < Len(segs)) =>
                              /\ segs[i].src = a
                              /\ OwnMark(a, segs[i + 1])
                              /\ segs[i + 1].t = "indent"
                        /\ (i > 1 /\ OwnMark(a, segs[i])
                              /\ segs[i].t # "eol") =>
                              /\ segs[i].t = "indent"
                              /\ segs[i - 1].t = "eol"
                  /\ SelectSeq(segs, Inner) = Flatten(lines)
                  /\ \A l \in DOMAIN heap :
                        (Absorbers(a) = {l} /\ heap[l].closed # 0) =>
                            Cardinality({i \in Positions(a) :
                                            out[i].t = "eol"}) = k

\* A list that is not nested has been rendered whose item holds two
\* paragraphs: the second line of the item is in the stream after an indent.
C14_Witness ==
    /\ Healthy
    /\ \E a \in DOMAIN heap :
          /\ heap[a].cls = "ListItem"
          /\ Len(heap[a].elements) = 2
          /\ \E i, j \in Positions(a) :
                /\ i < j
                /\ out[i].t = "bullet"
                /\ out[j].t = "indent"
                /\ out[j + 1].src = heap[a].elements[2]

\* C15: a horizontal rule renders, without failing, exactly one segment, a
\* rule line as long as the available width when that is 0 or more and of
\* length 0 when it is below 0, and a newline.
C15_RuleLength ==
    /\ (n > 0 /\ ev.t = "thematic_break") => Healthy
    /\ \A a \in DOMAIN heap :
          (heap[a].cls = "HorizontalRule" /\ heap[a].closed # 0) =>
              /\ Cardinality(Positions(a)) = 1
              /\ \A i \in Positions(a) :
                    /\ out[i].t = "rule"
                    /\ out[i].w = IF max_width >= 0 THEN max_width ELSE 0

\* A rule has been rendered at an available width below 0.
C15_Witness ==
    /\ Healthy
    /\ max_width < 0
    /\ \E i \in DOMAIN out : out[i].t = "rule" /\ out[i].w = 0

\* C16: what a heading puts in the stream, flushed at top level or replayed
\* by the block quote that absorbed it, is its text centered, inside a Panel
\* (whose border has the h1 border style) when its level is 1 and bare when
\* its level is 2 or more.
C16_PanelIffLevelOne ==
    \A a \in DOMAIN heap :
        (/\ heap[a].cls = "Heading"
         /\ \A p \in Absorbers(a) : heap[p].cls = "BlockQuote") =>
            \A i \in Positions(a) :
                /\ out[i].t \in {"panel", "text"}
                /\ out[i].t = "panel" <=> heap[a].level = 1
                /\ out[i].justify = "center"
                /\ out[i].runs = heap[a].text

\* A level-1 heading replayed by a block quote and a level-2 heading flushed
\* at top level are both in the stream.
C16_Witness ==
    /\ Healthy
    /\ \E a, b \in DOMAIN heap :
          /\ heap[a].cls = "Heading" /\ heap[a].level = 1
          /\ Absorbers(a) # {}
          /\ \A p \in Absorbers(a) : heap[p].cls = "BlockQuote"
          /\ Positions(a) # {}
          /\ heap[b].cls = "Heading" /\ heap[b].level = 2
          /\ Absorbers(b) = {}
          /\ Positions(b) # {}

\* C17 as stated: the blank-line flag is set only by an element whose output
\* was emitted, so every newline separator in the stream has output of an
\* element before it, and the nearest such output is not that of a
\* horizontal rule, the one element that requests no blank line.
C17_SeparatorFollowsOutput ==
    \A i \in DOMAIN out :
        out[i].t = "sep" =>
            \E j \in 1..(i - 1) :
                /\ out[j].t \notin {"sep", "rule"}
                /\ \A k \in (j + 1)..(i - 1) : out[k].t = "sep"

\* C18 as stated: every list item lays out its children at a width of 0 or
\* more, whatever the available width and however deep the item is nested.
C18_ChildWidthNotNegative ==
    \A i \in DOMAIN out :
        out[i].t \in {"bullet", "indent", "eol"} => out[i].w >= 0

\* C19 as stated: when a segment of a leaf element (or the separator before
\* it) is yielded, the element's leave hook has run: the Style Context holds
\* then what it holds once the leaf's visit is over.
C19_LeafLeavesBeforeEmit ==
    (Healthy /\ n > 0
       /\ ev.t \in {"code_block", "thematic_break", "html_block",
                    "linebreak"}) =>
        \A i \in DOMAIN out :
            out[i].at = n => out[i].depth = Len(style_stack)

\* C20: a text or softbreak event changes no element but the innermost open
\* one and adds nothing to the stream; when the innermost open element is
\* an unrecognized container it changes no element at all, the text buffer
\* of the enclosing paragraph included, and its literal is in no text buffer
\* and in no segment.
C20_TextToInnermostOnly ==
    [][(n' = n + 1 /\ ev'.t \in {"text", "softbreak"} /\ stack # <<>>) =>
          /\ status' \in {"running", "done"}
          /\ out' = out
          /\ stack' = stack
          /\ \A a \in DOMAIN heap : a # Last(stack) => heap'[a] = heap[a]
          /\ heap[Last(stack)].cls = "UnknownElement" =>
                /\ heap' = heap
                /\ \A a \in DOMAIN heap' : \A k \in DOMAIN heap'[a].text :
                      heap'[a].text[k].lit # <<ev'.id>>
                /\ \A i \in DOMAIN out' : \A k \in DOMAIN out'[i].runs :
                      out'[i].runs[k].lit # <<ev'.id>>]_vars

\* A text was visited inside a link whose paragraph already held a text.
C20_Witness ==
    /\ Healthy
    /\ ev.t = "text"
    /\ Len(stack) >= 2
    /\ heap[Last(stack)].cls = "UnknownElement"
    /\ heap[stack[Len(stack) - 1]].cls = "Paragraph"
    /\ Len(heap[stack[Len(stack) - 1]].text) = 1

RECURSIVE Alone(_)
\* The context and the blank-line flag of a render of self.parsed that runs
\* with no other render about, once it has handled k events
Alone(k) ==
    IF k = 0
    THEN [c |-> [stack |-> <<>>, style_stack |-> <<"base">>, heap |-> <<>>,
                 out |-> <<>>, err |-> "none", now |-> 0],
          nl |-> FALSE]
    ELSE LET s == Alone(k - 1)
             e == parsed[k]
             c == [s.c EXCEPT !.now = k]
         IN  IF s.c.err # "none" THEN s
             ELSE IF e.t \in {"text", "softbreak"}
             THEN [c |-> visit_text(c, Literal(e.t, k)), nl |-> s.nl]
             ELSE IF e.t \in inlines
             THEN [c |-> IF ~is_container(e.t)
                         THEN span_leaf(c, e.t, Literal(e.t, k))
                         ELSE IF e.entering THEN span_enter(c, e.t)
                         ELSE span_leave(c),
                   nl |-> s.nl]
             ELSE IF is_container(e.t)
             THEN IF e.entering
                  THEN [c |-> container_enter(c, e.t, e.level, k), nl |-> s.nl]
                  ELSE [c |-> container_leave(c, s.nl, max_width),
                        nl |-> IF c.stack = <<>> THEN s.nl
                               ELSE next_new_line(c, s.nl, Last(c.stack))]
             ELSE LET c2 == leaf_element(c, e.t, Literal(e.t, k), k, s.nl,
                                         max_width)
                  IN  [c |-> c2, nl |-> next_new_line(c2, s.nl, k)]

\* C13: of two renders of one Markdown that the consumer advances in any
\* order, each works on stacks of its own: the Element Stack of the running
\* one holds the elements of the nodes its own walker has open and its Style
\* Context their styles, whatever the suspended one has pushed, and a render
\* that has handled every event has yielded, and raised, what a render of the
\* same document yields when it runs alone.
C13_RendersIndependent ==
    /\ Len(stack) = Len(ElementNodes)
    /\ \A i \in DOMAIN stack : stack[i] = ElementNodes[i].id
    /\ Healthy => style_stack = OpenStyles
    /\ (n = Len(parsed) /\ status # "running") =>
          /\ out = Alone(n).c.out
          /\ status = IF Alone(n).c.err # "none" THEN Alone(n).c.err
                      ELSE "done"
    /\ (other # NotStarted /\ other.status # "running") =>
          /\ other.n = Len(parsed)
          /\ other.out = Alone(other.n).c.out

\* A render has run to its end, yielding the text of a paragraph, while the
\* other render of the same Markdown, begun before it ended, is suspended
\* inside that paragraph with its own elements and styles pushed.
C13_Witness ==
    /\ status = "done"
    /\ \E i \in DOMAIN out : out[i].t = "text" /\ out[i].runs # <<>>
    /\ other # NotStarted
    /\ other.status = "running"
    /\ Len(other.stack) >= 2
    /\ Len(other.style_stack) >= 2
    /\ other.n < Len(parsed)
====
